---- MODULE Spec2Model ----
(***************************************************************************)
(* The Sudoku board editor: the puzzle module (puzzle.c) and its driver    *)
(* (main.c).  The board is the pair of static tables puzzle[10][10] and    *)
(* fixed[10][10]; the driver initialises it, seeds it from the             *)
(* configuration file and then runs the command loop.                      *)
(*                                                                         *)
(* Characters are their integer codes, as in C, so that the conversions    *)
(* "character - '0'" of configure and main are computed, not assumed.      *)
(***************************************************************************)
EXTENDS Integers, Sequences, FiniteSets, TLC

VARIABLES
    pc,        \* position of main: "start", "seeding", "interactive", "exited", "done"
    puzzle,    \* static short puzzle[10][10]
    fixed,     \* static bool  fixed[10][10]
    stray,     \* writes made outside the bounds of the tables: <<table, i, j>>
    line_in,   \* configure's buffer char line_in[5]
    cmd_line,  \* main's buffer char cmd_line[MAX_CHARS+1]
    status,    \* main's op_result status ("unset" until first assigned)
    op,        \* the board call made by the latest loop iteration
    before,    \* board, op and status as they were before the latest iteration
    nseeds,    \* configuration lines read so far
    ncmds      \* command lines read so far

vars == <<pc, puzzle, fixed, stray, line_in, cmd_line, status, op, before, nseeds, ncmds>>

(***************************************************************************)
(* Bounds of the model: the lengths of the two finite inputs.              *)
(***************************************************************************)
MaxSeeds == 2
MaxCmds == 3

(***************************************************************************)
(* Program constants.                                                      *)
(***************************************************************************)
MAX_CHARS == 8
CMD_INDEX == 0
ROW_INDEX == 2
COL_INDEX == 4
DIGIT_INDEX == 6
LINE_IN_SIZE == 5
ZERO_CHAR == 48

(***************************************************************************)
(* Character codes (ASCII) of the characters the inputs are made of.       *)
(***************************************************************************)
Ord(ch) ==
    CASE ch = "NUL" -> 0
      [] ch = "NL" -> 10
      [] ch = " " -> 32
      [] ch = "-" -> 45
      [] ch = "0" -> 48
      [] ch = "1" -> 49
      [] ch = "2" -> 50
      [] ch = "3" -> 51
      [] ch = "4" -> 52
      [] ch = "5" -> 53
      [] ch = "6" -> 54
      [] ch = "7" -> 55
      [] ch = "8" -> 56
      [] ch = "9" -> 57
      [] ch = ":" -> 58
      [] ch = "a" -> 97
      [] ch = "e" -> 101
      [] ch = "p" -> 112
      [] ch = "q" -> 113
      [] ch = "x" -> 120
      [] ch = "|" -> 124

\* The character that "value + '0'" is: '0'..'9', and ':' for 10.
DigitChar(value) == ZERO_CHAR + value

Idx == 0..9
Sudoku == 1..9

(***************************************************************************)
(* puzzle.c: the constraint queries.                                       *)
(***************************************************************************)

\* A 0-based range test, as the declaration's comment ("0 .. 9") has it.
in_range_from_zero(value) == value >= 0 /\ value <= 9

\* in_range: TRUE iff 1 <= value <= 9.
in_range(value) == value >= 1 /\ value <= 9

\* row_contains: the loop body returns on its first pass (i = 1) in both
\* branches of the if, so only puzzle[row][1] is ever examined.
row_contains(row, digit) == puzzle[row][1] = digit

\* col_contains: likewise only puzzle[1][col] is examined.
col_contains(col, digit) == puzzle[1][col] = digit

\* The value a non-void function yields when control reaches its closing
\* brace without a return statement: undefined, any truth value.
Indeterminate == BOOLEAN

\* region_search: the possible return values.  TRUE once the digit is found
\* in the 3x3 block of the region; otherwise control falls off the end.
region_search(region, digit) ==
    LET r0 == 3 * ((region - 1) \div 3) + 1
        c0 == 3 * ((region - 1) % 3) + 1
    IN  IF region \in 1..9
           /\ \E i \in r0..(r0 + 2) : \E j \in c0..(c0 + 2) : puzzle[i][j] = digit
        THEN {TRUE}
        ELSE Indeterminate

\* The branch of region_contains' if-chain taken for (row, col): the region
\* number passed to region_search, or 0 for the final else.  The test of
\* region 9 is "col >= 7 && col >= 9".
region_branch(row, col) ==
    IF row >= 1 /\ row <= 3 /\ col >= 1 /\ col <= 3 THEN 1
    ELSE IF row >= 1 /\ row <= 3 /\ col >= 4 /\ col <= 6 THEN 2
    ELSE IF row >= 1 /\ row <= 3 /\ col >= 7 /\ col <= 9 THEN 3
    ELSE IF row >= 4 /\ row <= 6 /\ col >= 1 /\ col <= 3 THEN 4
    ELSE IF row >= 4 /\ row <= 6 /\ col >= 4 /\ col <= 6 THEN 5
    ELSE IF row >= 4 /\ row <= 6 /\ col >= 7 /\ col <= 9 THEN 6
    ELSE IF row >= 7 /\ row <= 9 /\ col >= 1 /\ col <= 3 THEN 7
    ELSE IF row >= 7 /\ row <= 9 /\ col >= 4 /\ col <= 6 THEN 8
    ELSE IF row >= 7 /\ row <= 9 /\ col >= 7 /\ col >= 9 THEN 9
    ELSE 0

\* region_contains: the possible return values.  Every region branch calls
\* region_search, discards the value it returns (whichever it is) and falls
\* off the end of the function; only the final else returns (FALSE).
region_contains(row, col, digit) ==
    IF region_branch(row, col) # 0
    THEN {b \in Indeterminate :
             \E discarded \in region_search(region_branch(row, col), digit) : TRUE}
    ELSE {FALSE}

(***************************************************************************)
(* puzzle.c: the board operations.  Each yields the status returned and    *)
(* the contents of the puzzle table afterwards; add_digit yields the set   *)
(* of outcomes the indeterminate result of region_contains allows.         *)
(***************************************************************************)
Outcome(st, pz) == [status |-> st, puzzle |-> pz]

\* add_digit without the test for an occupied cell.
add_digit_overwrites(row, col, digit) ==
    IF ~in_range(row) \/ ~in_range(col) \/ ~in_range(digit)
    THEN {Outcome("OP_BADARGS", puzzle)}
    ELSE IF row_contains(row, digit) \/ col_contains(col, digit)
    THEN {Outcome("OP_ILLEGAL", puzzle)}
    ELSE {IF rc THEN Outcome("OP_ILLEGAL", puzzle)
                ELSE Outcome("OP_OK", [puzzle EXCEPT ![row][col] = digit])
          : rc \in region_contains(row, col, digit)}

add_digit(row, col, digit) ==
    IF ~in_range(row) \/ ~in_range(col) \/ ~in_range(digit)
    THEN {Outcome("OP_BADARGS", puzzle)}
    ELSE IF puzzle[row][col] # 0
    THEN {Outcome("OP_OCCUPIED", puzzle)}
    ELSE IF row_contains(row, digit) \/ col_contains(col, digit)
    THEN {Outcome("OP_ILLEGAL", puzzle)}
    ELSE {IF rc THEN Outcome("OP_ILLEGAL", puzzle)
                ELSE Outcome("OP_OK", [puzzle EXCEPT ![row][col] = digit])
          : rc \in region_contains(row, col, digit)}

\* erase_digit without the test of the fixed flag.
erase_digit_unprotected(row, col) ==
    IF ~in_range(row) \/ ~in_range(col)
    THEN Outcome("OP_BADARGS", puzzle)
    ELSE IF puzzle[row][col] = 0
    THEN Outcome("OP_EMPTY", puzzle)
    ELSE Outcome("OP_OK", [puzzle EXCEPT ![row][col] = 0])

\* erase_digit with the indices of the store exchanged.
erase_digit_transposed(row, col) ==
    IF ~in_range(row) \/ ~in_range(col)
    THEN Outcome("OP_BADARGS", puzzle)
    ELSE IF puzzle[row][col] = 0
    THEN Outcome("OP_EMPTY", puzzle)
    ELSE IF fixed[row][col] = TRUE
    THEN Outcome("OP_FIXED", puzzle)
    ELSE Outcome("OP_OK", [puzzle EXCEPT ![col][row] = 0])

\* erase_digit without the test for an empty cell.
erase_digit_ignores_empty(row, col) ==
    IF ~in_range(row) \/ ~in_range(col)
    THEN Outcome("OP_BADARGS", puzzle)
    ELSE IF fixed[row][col] = TRUE
    THEN Outcome("OP_FIXED", puzzle)
    ELSE Outcome("OP_OK", [puzzle EXCEPT ![row][col] = 0])

\* erase_digit that reports success without clearing the cell.
erase_digit_keeps_digit(row, col) ==
    IF ~in_range(row) \/ ~in_range(col)
    THEN Outcome("OP_BADARGS", puzzle)
    ELSE IF puzzle[row][col] = 0
    THEN Outcome("OP_EMPTY", puzzle)
    ELSE IF fixed[row][col] = TRUE
    THEN Outcome("OP_FIXED", puzzle)
    ELSE Outcome("OP_OK", puzzle)

erase_digit(row, col) ==
    IF ~in_range(row) \/ ~in_range(col)
    THEN Outcome("OP_BADARGS", puzzle)
    ELSE IF puzzle[row][col] = 0
    THEN Outcome("OP_EMPTY", puzzle)
    ELSE IF fixed[row][col] = TRUE
    THEN Outcome("OP_FIXED", puzzle)
    ELSE Outcome("OP_OK", [puzzle EXCEPT ![row][col] = 0])

(***************************************************************************)
(* puzzle.c: printing.  The output is the sequence of the lines written,   *)
(* each line the sequence of its characters without the newline.           *)
(***************************************************************************)

\* printf("%d", value) for a value 0..99.
FormatD(value) ==
    IF value < 10 THEN <<ZERO_CHAR + value>>
    ELSE <<ZERO_CHAR + (value \div 10), ZERO_CHAR + (value % 10)>>

\* print_dashes: a row of 25 dashes.
print_dashes == [i \in 1..25 |-> Ord("-")]

\* One pass of print_row's loop: a space, the cell, and " |" after every
\* third column.
print_cell(row, i) ==
    <<Ord(" ")>>
    \o (IF puzzle[row][i] = 0 THEN <<Ord(" ")>> ELSE FormatD(puzzle[row][i]))
    \o (IF i % 3 = 0 THEN <<Ord(" "), Ord("|")>> ELSE <<>>)

RECURSIVE print_row_from(_, _)
print_row_from(row, i) ==
    IF i < 10 THEN print_cell(row, i) \o print_row_from(row, i + 1) ELSE <<>>

\* print_row without the bar that opens the line.
print_row_unframed(row) == print_row_from(row, 1)

print_row(row) == <<Ord("|")>> \o print_row_from(row, 1)

RECURSIVE print_puzzle_from(_)
print_puzzle_from(i) ==
    IF i < 10
    THEN <<print_row(i)>> \o (IF i % 3 = 0 THEN <<print_dashes>> ELSE <<>>)
         \o print_puzzle_from(i + 1)
    ELSE <<>>

print_puzzle == <<print_dashes>> \o print_puzzle_from(1)

(***************************************************************************)
(* The inputs.  A line is the sequence of its characters.                  *)
(***************************************************************************)
NoOp == [name |-> "none", row |-> 0, col |-> 0, digit |-> 0]

\* The placements the inputs name: cell (1,1) of region 1, whose row and
\* column scans start at the cell itself, (1,2) beside it, and the cells
\* (7,7), (7,8), (8,7) of the rows 7..9 x columns 7..8 part of region 9.
SeedTriples == {<<1, 1, 5>>, <<1, 2, 5>>, <<7, 7, 5>>, <<7, 8, 5>>}
AddTriples == {<<1, 1, 5>>, <<7, 7, 5>>, <<7, 7, 6>>, <<7, 8, 5>>, <<8, 7, 5>>}
BadTriples == {<<0, 1, 5>>, <<1, 10, 5>>, <<1, 1, 0>>}
EraseCells == {<<1, 1>>, <<7, 7>>, <<7, 8>>}
BadCells == {<<0, 1>>, <<1, 10>>}

ConfigLine(r, c, d) == <<DigitChar(r), DigitChar(c), DigitChar(d), Ord("NL")>>

\* Well-formed lines, lines with a value outside 1..9, a line that is too
\* short, a last line without its newline and a line that is too long.
ConfigLines ==
    {ConfigLine(t[1], t[2], t[3]) : t \in SeedTriples \cup BadTriples}
    \cup {<<Ord("7"), Ord("NL")>>,
          <<Ord("1"), Ord("1"), Ord("5")>>,
          <<Ord("1"), Ord("1"), Ord("5"), Ord("5"), Ord("NL")>>}

AddLine(r, c, d) ==
    <<Ord("a"), Ord(" "), DigitChar(r), Ord(" "), DigitChar(c), Ord(" "), DigitChar(d)>>
EraseLine(r, c) ==
    <<Ord("e"), Ord(" "), DigitChar(r), Ord(" "), DigitChar(c)>>

CmdLines ==
    {AddLine(t[1], t[2], t[3]) : t \in AddTriples \cup BadTriples}
    \cup {EraseLine(rc[1], rc[2]) : rc \in EraseCells \cup BadCells}
    \cup {<<Ord("a")>>, <<Ord("e")>>, <<Ord("p")>>, <<Ord("q")>>, <<>>}

(***************************************************************************)
(* The library and driver routines that fill the buffers.                  *)
(***************************************************************************)
Min(a, b) == IF a < b THEN a ELSE b

\* fgets(buf, size, file) on a file whose next line is `line`: at most
\* size-1 characters are stored, then a NUL; the rest of buf is not written.
fgets(buf, size, line) ==
    LET n == Min(size - 1, Len(line))
    IN  [i \in DOMAIN buf |-> IF i < n THEN line[i + 1]
                              ELSE IF i = n THEN Ord("NUL")
                              ELSE buf[i]]

\* read_line(buf, max) on an input whose next line (without its newline) is
\* `line`: the first max characters are stored, then a NUL at buf[i]; the
\* rest of buf is not written.
read_line(buf, max, line) ==
    LET n == Min(max, Len(line))
    IN  [i \in DOMAIN buf |-> IF i < n THEN line[i + 1]
                              ELSE IF i = n THEN Ord("NUL")
                              ELSE buf[i]]

\* read_line has no return statement: whether the value main compares with
\* EOF equals EOF is indeterminate.
read_line_is_EOF == Indeterminate

(***************************************************************************)
(* The initial state: static storage is zero-initialised; the automatic    *)
(* buffers hold indeterminate characters.                                  *)
(***************************************************************************)
Fill == {Ord("NUL"), Ord("NL")}
CmdFill == {Ord("NUL"), Ord("7")}

Init ==
    /\ pc = "start"
    /\ puzzle = [i \in Idx |-> [j \in Idx |-> 0]]
    /\ fixed = [i \in Idx |-> [j \in Idx |-> FALSE]]
    /\ stray = {}
    /\ \E f \in Fill : line_in = [i \in 0..(LINE_IN_SIZE - 1) |-> f]
    /\ \E f \in CmdFill : cmd_line = [i \in 0..MAX_CHARS |-> f]
    /\ status = "unset"
    /\ op = NoOp
    /\ before = [puzzle |-> puzzle, fixed |-> fixed, op |-> NoOp, status |-> "unset"]
    /\ nseeds = 0
    /\ ncmds = 0

(***************************************************************************)
(* init_puzzle: the nested loops zero puzzle[1..9][1..9]; the assignment   *)
(* to fixed is outside both loops and runs once, with i = j = 10.  That    *)
(* store is outside the table; it stores 0, and every element of puzzle it *)
(* could land on already holds 0, so neither table changes.                *)
(***************************************************************************)
init_puzzle ==
    /\ pc = "start"
    /\ puzzle' = [i \in Idx |-> [j \in Idx |->
                     IF i >= 1 /\ j >= 1 THEN 0 ELSE puzzle[i][j]]]
    /\ fixed' = fixed
    /\ stray' = stray \cup {<<"fixed", 10, 10>>}
    /\ pc' = "seeding"
    /\ UNCHANGED <<line_in, cmd_line, status, op, before, nseeds, ncmds>>

(***************************************************************************)
(* configure: one pass of the while loop per configuration line.           *)
(***************************************************************************)
conf_row(buf) == buf[0] - 48
conf_col(buf) == buf[1] - ZERO_CHAR
conf_digit(buf) == buf[2] - ZERO_CHAR

\* The line passes every check of the if-chain.
conf_accepts(buf) ==
    /\ buf[3] = Ord("NL")
    /\ in_range(conf_row(buf)) /\ in_range(conf_col(buf)) /\ in_range(conf_digit(buf))
    /\ puzzle[conf_row(buf)][conf_col(buf)] = 0
    /\ ~(row_contains(conf_row(buf), conf_digit(buf))
         \/ col_contains(conf_col(buf), conf_digit(buf)))

\* configure_seed with the indices of the store to fixed exchanged.
configure_seed_flag_transposed ==
    /\ pc = "seeding"
    /\ nseeds < MaxSeeds
    /\ \E line \in ConfigLines :
         LET buf == fgets(line_in, LINE_IN_SIZE, line)
         IN  /\ conf_accepts(buf)
             /\ FALSE \in region_contains(conf_row(buf), conf_col(buf), conf_digit(buf))
             /\ line_in' = buf
             /\ puzzle' = [puzzle EXCEPT ![conf_row(buf)][conf_col(buf)] = conf_digit(buf)]
             /\ fixed' = [fixed EXCEPT ![conf_col(buf)][conf_row(buf)] = TRUE]
    /\ nseeds' = nseeds + 1
    /\ UNCHANGED <<pc, stray, cmd_line, status, op, before, ncmds>>

configure_seed ==
    /\ pc = "seeding"
    /\ nseeds < MaxSeeds
    /\ \E line \in ConfigLines :
         LET buf == fgets(line_in, LINE_IN_SIZE, line)
         IN  /\ conf_accepts(buf)
             /\ FALSE \in region_contains(conf_row(buf), conf_col(buf), conf_digit(buf))
             /\ line_in' = buf
             /\ puzzle' = [puzzle EXCEPT ![conf_row(buf)][conf_col(buf)] = conf_digit(buf)]
             /\ fixed' = [fixed EXCEPT ![conf_row(buf)][conf_col(buf)] = TRUE]
    /\ nseeds' = nseeds + 1
    /\ UNCHANGED <<pc, stray, cmd_line, status, op, before, ncmds>>

configure_exit ==
    /\ pc = "seeding"
    /\ nseeds < MaxSeeds
    /\ \E line \in ConfigLines :
         LET buf == fgets(line_in, LINE_IN_SIZE, line)
         IN  /\ \/ ~conf_accepts(buf)
                \/ TRUE \in region_contains(conf_row(buf), conf_col(buf), conf_digit(buf))
             /\ line_in' = buf
    /\ pc' = "exited"
    /\ nseeds' = nseeds + 1
    /\ UNCHANGED <<puzzle, fixed, stray, cmd_line, status, op, before, ncmds>>

\* fgets returns NULL: configure returns, main closes the file, prints the
\* board and enters the command loop.
configure_eof ==
    /\ pc = "seeding"
    /\ pc' = "interactive"
    /\ UNCHANGED <<puzzle, fixed, stray, line_in, cmd_line, status, op, before, nseeds, ncmds>>

(***************************************************************************)
(* main: one pass of the command loop per command line.                    *)
(***************************************************************************)
Snapshot == [puzzle |-> puzzle, fixed |-> fixed, op |-> op, status |-> status]

cmd_row(buf) == buf[ROW_INDEX] - ZERO_CHAR
cmd_col(buf) == buf[COL_INDEX] - ZERO_CHAR
cmd_digit(buf) == buf[DIGIT_INDEX] - ZERO_CHAR

\* The loop condition: read_line fills cmd_line and its (indeterminate)
\* result differs from EOF.
LoopEnters(line) ==
    /\ pc = "interactive"
    /\ ncmds < MaxCmds
    /\ FALSE \in read_line_is_EOF
    /\ cmd_line' = read_line(cmd_line, MAX_CHARS, line)
    /\ ncmds' = ncmds + 1
    /\ before' = Snapshot

\* The loop condition fails: main returns 0.
loop_exit ==
    /\ pc = "interactive"
    /\ ncmds < MaxCmds
    /\ TRUE \in read_line_is_EOF
    /\ \E line \in CmdLines : cmd_line' = read_line(cmd_line, MAX_CHARS, line)
    /\ ncmds' = ncmds + 1
    /\ pc' = "done"
    /\ op' = NoOp
    /\ before' = Snapshot
    /\ UNCHANGED <<puzzle, fixed, stray, line_in, status, nseeds>>

cmd_quit ==
    \E line \in CmdLines :
        /\ LoopEnters(line)
        /\ cmd_line'[CMD_INDEX] = Ord("q")
        /\ pc' = "done"
        /\ op' = NoOp
        /\ UNCHANGED <<puzzle, fixed, stray, line_in, status, nseeds>>

cmd_print ==
    \E line \in CmdLines :
        /\ LoopEnters(line)
        /\ cmd_line'[CMD_INDEX] = Ord("p")
        /\ op' = NoOp
        /\ UNCHANGED <<pc, puzzle, fixed, stray, line_in, status, nseeds>>

cmd_add ==
    \E line \in CmdLines :
        /\ LoopEnters(line)
        /\ cmd_line'[CMD_INDEX] = Ord("a")
        /\ LET r == cmd_row(cmd_line')
               c == cmd_col(cmd_line')
               d == cmd_digit(cmd_line')
           IN  /\ op' = [name |-> "add_digit", row |-> r, col |-> c, digit |-> d]
               /\ \E res \in add_digit(r, c, d) :
                      /\ status' = res.status
                      /\ puzzle' = res.puzzle
        /\ UNCHANGED <<pc, fixed, stray, line_in, nseeds>>

cmd_erase ==
    \E line \in CmdLines :
        /\ LoopEnters(line)
        /\ cmd_line'[CMD_INDEX] = Ord("e")
        /\ LET r == cmd_row(cmd_line')
               c == cmd_col(cmd_line')
           IN  /\ op' = [name |-> "erase_digit", row |-> r, col |-> c, digit |-> 0]
               /\ status' = erase_digit(r, c).status
               /\ puzzle' = erase_digit(r, c).puzzle
        /\ UNCHANGED <<pc, fixed, stray, line_in, nseeds>>

cmd_unknown ==
    \E line \in CmdLines :
        /\ LoopEnters(line)
        /\ cmd_line'[CMD_INDEX] \notin {Ord("q"), Ord("p"), Ord("a"), Ord("e")}
        /\ op' = NoOp
        /\ UNCHANGED <<pc, puzzle, fixed, stray, line_in, status, nseeds>>

Next ==
    \/ init_puzzle
    \/ configure_seed
    \/ configure_exit
    \/ configure_eof
    \/ loop_exit
    \/ cmd_quit
    \/ cmd_print
    \/ cmd_add
    \/ cmd_erase
    \/ cmd_unknown

Spec == Init /\ [][Next]_vars

(***************************************************************************)
(* init_puzzle called on a board in any prior state: the tables hold       *)
(* arbitrary digits and flags in a few cells when it is called.            *)
(***************************************************************************)
PriorCells == {<<1, 1>>, <<7, 8>>, <<9, 9>>}
PriorDigits == {0, 5, 9}

InitAny ==
    /\ pc = "start"
    /\ \E pd \in [PriorCells -> PriorDigits], pf \in [PriorCells -> BOOLEAN] :
          /\ puzzle = [i \in Idx |-> [j \in Idx |->
                          IF <<i, j>> \in PriorCells THEN pd[<<i, j>>] ELSE 0]]
          /\ fixed = [i \in Idx |-> [j \in Idx |->
                          IF <<i, j>> \in PriorCells THEN pf[<<i, j>>] ELSE FALSE]]
    /\ stray = {}
    /\ line_in = [i \in 0..(LINE_IN_SIZE - 1) |-> Ord("NUL")]
    /\ cmd_line = [i \in 0..MAX_CHARS |-> Ord("NUL")]
    /\ status = "unset"
    /\ op = NoOp
    /\ before = [puzzle |-> puzzle, fixed |-> fixed, op |-> NoOp, status |-> "unset"]
    /\ nseeds = 0
    /\ ncmds = 0

SpecInit == InitAny /\ [][init_puzzle]_vars

(***************************************************************************)
(* Properties of the board.                                                *)
(***************************************************************************)
\* A command-loop iteration that called add_digit / erase_digit.
AddStep == ncmds' = ncmds + 1 /\ op'.name = "add_digit"
EraseStep == ncmds' = ncmds + 1 /\ op'.name = "erase_digit"

RowUnique(pz) ==
    \A r \in Sudoku, d \in Sudoku : Cardinality({c \in Sudoku : pz[r][c] = d}) <= 1
ColUnique(pz) ==
    \A c \in Sudoku, d \in Sudoku : Cardinality({r \in Sudoku : pz[r][c] = d}) <= 1

\* The 3x3 block of (r, c): rows and columns 3*((x-1) div 3)+1 .. +3.
BlockOf(x) == LET x0 == 3 * ((x - 1) \div 3) + 1 IN x0..(x0 + 2)
RegionUnique(pz) ==
    \A r \in {1, 4, 7}, c \in {1, 4, 7}, d \in Sudoku :
        Cardinality({rc \in BlockOf(r) \X BlockOf(c) : pz[rc[1]][rc[2]] = d}) <= 1

\* C1: a place or erase call made on a board in which no digit 1..9 occurs
\* twice in a row leaves a board in which no digit occurs twice in a row.
C1_RowUniquenessKept ==
    [][(pc = "interactive" /\ RowUnique(puzzle)) => RowUnique(puzzle')]_vars

\* C2: a place or erase call made on a board in which no digit 1..9 occurs
\* twice in a column leaves a board in which no digit occurs twice in a column.
C2_ColUniquenessKept ==
    [][(pc = "interactive" /\ ColUnique(puzzle)) => ColUnique(puzzle')]_vars

\* C3: a place or erase call made on a board in which no digit 1..9 occurs
\* twice in a 3x3 region leaves a board in which no digit occurs twice in a
\* region.
C3_RegionUniquenessKept ==
    [][(pc = "interactive" /\ RegionUnique(puzzle)) => RegionUnique(puzzle')]_vars

\* C4: in the interactive phase a fixed cell keeps its digit and its fixed
\* flag in every step; erase_digit on it returns OP_FIXED; add_digit on it
\* never returns OP_OK, and returns OP_OCCUPIED for every digit 1..9.
C4_FixedCellProtected ==
    [][\A r \in Sudoku, c \in Sudoku :
          (pc = "interactive" /\ fixed[r][c] = TRUE) =>
              /\ puzzle'[r][c] = puzzle[r][c]
              /\ fixed'[r][c] = TRUE
              /\ (EraseStep /\ op'.row = r /\ op'.col = c) => status' = "OP_FIXED"
              /\ (AddStep /\ op'.row = r /\ op'.col = c) =>
                     /\ status' # "OP_OK"
                     /\ op'.digit \in Sudoku => status' = "OP_OCCUPIED"]_vars

\* Reached: an erase of a fixed cell was rejected with OP_FIXED right after
\* a place on the same cell was rejected with OP_OCCUPIED.
C4_Witness ==
    /\ op.name = "erase_digit" /\ op.row \in Sudoku /\ op.col \in Sudoku
    /\ fixed[op.row][op.col] = TRUE /\ puzzle[op.row][op.col] # 0
    /\ status = "OP_FIXED"
    /\ before.op.name = "add_digit"
    /\ before.op.row = op.row /\ before.op.col = op.col
    /\ before.op.digit # puzzle[op.row][op.col]
    /\ before.status = "OP_OCCUPIED"

\* C5: add_digit with a row, column or digit outside 1..9 returns
\* OP_BADARGS and changes no cell of puzzle and no fixed flag.
C5_BadArgsRejected ==
    [][(AddStep /\ (op'.row \notin Sudoku \/ op'.col \notin Sudoku \/ op'.digit \notin Sudoku)) =>
          (status' = "OP_BADARGS" /\ puzzle' = puzzle /\ fixed' = fixed)]_vars

\* Reached: add_digit with only the digit out of range, on an empty cell of
\* a board that holds digits, returned OP_BADARGS.
C5_Witness ==
    /\ op.name = "add_digit"
    /\ op.row \in Sudoku /\ op.col \in Sudoku /\ op.digit \notin Sudoku
    /\ puzzle[op.row][op.col] = 0
    /\ \E r \in Sudoku, c \in Sudoku : puzzle[r][c] # 0 /\ ~fixed[r][c]
    /\ status = "OP_BADARGS"

\* C6: when the iteration after a successful add_digit(r, c, d) is
\* erase_digit(r, c), the erase returns OP_OK, cell (r, c) is empty, and
\* every other cell and every fixed flag is as it was before the add.
C6_PlaceEraseRoundTrip ==
    [][(pc = "interactive" /\ op.name = "add_digit" /\ status = "OP_OK"
          /\ EraseStep /\ op'.row = op.row /\ op'.col = op.col) =>
             /\ status' = "OP_OK"
             /\ puzzle'[op.row][op.col] = 0
             /\ \A i \in Idx, j \in Idx :
                    <<i, j>> # <<op.row, op.col>> => puzzle'[i][j] = before.puzzle[i][j]
             /\ fixed' = before.fixed]_vars

\* Reached: an erase that succeeded right after a successful place on the
\* same cell, on a board that holds other digits.
C6_Witness ==
    /\ op.name = "erase_digit" /\ status = "OP_OK"
    /\ before.op.name = "add_digit" /\ before.status = "OP_OK"
    /\ before.op.row = op.row /\ before.op.col = op.col
    /\ before.puzzle[op.row][op.col] = before.op.digit
    /\ puzzle[op.row][op.col] = 0
    /\ \E r \in Sudoku, c \in Sudoku : puzzle[r][c] # 0

\* C7: for every cell (r, c) of the 81 and every digit 0..9, region_contains
\* returns TRUE exactly when a cell of the 3x3 block of (r, c) holds the digit.
C7_RegionContainsIsBlockScan ==
    \A r \in Sudoku, c \in Sudoku, d \in 0..9 :
        region_contains(r, c, d) =
            {\E i \in BlockOf(r), j \in BlockOf(c) : puzzle[i][j] = d}

\* C8: for every row and every digit 0..9, row_contains returns TRUE exactly
\* when one of the nine cells of the row holds the digit.
C8_RowContainsIsRowScan ==
    \A row \in Sudoku, d \in 0..9 :
        row_contains(row, d) <=> (\E i \in Sudoku : puzzle[row][i] = d)

\* C9: for every column and every digit 0..9, col_contains returns TRUE
\* exactly when one of the nine cells of the column holds the digit.
C9_ColContainsIsColScan ==
    \A col \in Sudoku, d \in 0..9 :
        col_contains(col, d) <=> (\E i \in Sudoku : puzzle[i][col] = d)

\* C10: add_digit with row, column and digit in 1..9 on a cell that holds a
\* non-zero digit returns OP_OCCUPIED and changes no cell and no fixed flag.
C10_OccupiedRejected ==
    [][(AddStep /\ op'.row \in Sudoku /\ op'.col \in Sudoku /\ op'.digit \in Sudoku
          /\ puzzle[op'.row][op'.col] # 0) =>
             (status' = "OP_OCCUPIED" /\ puzzle' = puzzle /\ fixed' = fixed)]_vars

\* Reached: add_digit on an occupied cell that is not fixed, with a digit
\* found nowhere on the board, returned OP_OCCUPIED.
C10_Witness ==
    /\ op.name = "add_digit"
    /\ op.row \in Sudoku /\ op.col \in Sudoku /\ op.digit \in Sudoku
    /\ puzzle[op.row][op.col] # 0 /\ ~fixed[op.row][op.col]
    /\ \A r \in Sudoku, c \in Sudoku : puzzle[r][c] # op.digit
    /\ puzzle = before.puzzle
    /\ status = "OP_OCCUPIED"

\* The digit is held by a cell of the row, of the column or of the 3x3 block
\* of (r, c) on the board pz.
Conflicts(pz, r, c, d) ==
    \/ \E j \in Sudoku : pz[r][j] = d
    \/ \E i \in Sudoku : pz[i][c] = d
    \/ \E i \in BlockOf(r), j \in BlockOf(c) : pz[i][j] = d

\* add_digit called with row, column and digit in 1..9 on an empty cell.
AddOnEmpty ==
    /\ AddStep
    /\ op'.row \in Sudoku /\ op'.col \in Sudoku /\ op'.digit \in Sudoku
    /\ puzzle[op'.row][op'.col] = 0

\* C11: add_digit on an empty cell, with a digit that already appears in
\* the row, the column or the region of the cell, returns OP_ILLEGAL and
\* changes no cell and no fixed flag.
C11_ConflictRejected ==
    [][(AddOnEmpty /\ Conflicts(puzzle, op'.row, op'.col, op'.digit)) =>
          (status' = "OP_ILLEGAL" /\ puzzle' = puzzle /\ fixed' = fixed)]_vars

\* C12: add_digit on an empty cell, with a digit that appears nowhere in the
\* row, the column or the region of the cell, returns OP_OK, stores the
\* digit in the cell, leaves the cell unfixed and changes nothing else.
C12_LegalPlacementSucceeds ==
    [][(AddOnEmpty /\ ~Conflicts(puzzle, op'.row, op'.col, op'.digit)) =>
          /\ status' = "OP_OK"
          /\ puzzle' = [puzzle EXCEPT ![op'.row][op'.col] = op'.digit]
          /\ fixed' = fixed
          /\ fixed'[op'.row][op'.col] = FALSE]_vars

\* C13: erase_digit returns OP_BADARGS when the row or the column is outside
\* 1..9 and OP_EMPTY when both are in 1..9 and the cell holds 0; whenever it
\* returns anything but OP_OK, no cell and no fixed flag changes.
C13_EraseFailuresLeaveBoard ==
    [][EraseStep =>
          /\ (op'.row \notin Sudoku \/ op'.col \notin Sudoku) => status' = "OP_BADARGS"
          /\ (op'.row \in Sudoku /\ op'.col \in Sudoku /\ puzzle[op'.row][op'.col] = 0)
                 => status' = "OP_EMPTY"
          /\ status' # "OP_OK" => (puzzle' = puzzle /\ fixed' = fixed)]_vars

\* Reached: erase_digit on an empty cell of a board that holds digits
\* returned OP_EMPTY, right after an erase with a column outside 1..9
\* returned OP_BADARGS.
C13_Witness ==
    /\ op.name = "erase_digit" /\ op.row \in Sudoku /\ op.col \in Sudoku
    /\ puzzle[op.row][op.col] = 0
    /\ status = "OP_EMPTY"
    /\ puzzle = before.puzzle
    /\ \E r \in Sudoku, c \in Sudoku : puzzle[r][c] # 0
    /\ before.op.name = "erase_digit" /\ before.op.col \notin Sudoku
    /\ before.status = "OP_BADARGS"

\* C14: erase_digit with row and column in 1..9 on a cell that holds a
\* digit and is not fixed returns OP_OK, sets that cell to 0 and changes no
\* other cell and no fixed flag.
C14_EraseClearsOneCell ==
    [][(EraseStep /\ op'.row \in Sudoku /\ op'.col \in Sudoku
          /\ puzzle[op'.row][op'.col] # 0 /\ fixed[op'.row][op'.col] = FALSE) =>
             /\ status' = "OP_OK"
             /\ puzzle' = [puzzle EXCEPT ![op'.row][op'.col] = 0]
             /\ fixed' = fixed]_vars

\* Reached: erase_digit succeeded on a cell that held a digit, on a board
\* that holds a fixed cell and another placed digit.
C14_Witness ==
    /\ op.name = "erase_digit" /\ op.row \in Sudoku /\ op.col \in Sudoku
    /\ before.puzzle[op.row][op.col] # 0
    /\ puzzle[op.row][op.col] = 0
    /\ status = "OP_OK"
    /\ \E r \in Sudoku, c \in Sudoku : fixed[r][c] = TRUE /\ puzzle[r][c] # 0
    /\ \E r \in Sudoku, c \in Sudoku : fixed[r][c] = FALSE /\ puzzle[r][c] # 0

\* C15: when seeding has accepted the whole configuration and the command
\* loop is about to start, no digit occurs twice in a row, a column or a
\* region, and a cell is fixed exactly when it was seeded (holds a digit).
C15_SeededBoardValid ==
    (pc = "interactive" /\ ncmds = 0) =>
        /\ RowUnique(puzzle) /\ ColUnique(puzzle) /\ RegionUnique(puzzle)
        /\ \A r \in Sudoku, c \in Sudoku : fixed[r][c] = TRUE <=> puzzle[r][c] # 0

\* A configuration line, as fgets left it in the buffer, that is malformed
\* (not three digit characters and a newline), names a row, column or digit
\* outside 1..9, targets an occupied cell of the board pz, or whose digit is
\* already in the row, the column or the region of its cell.
BadSeedLine(buf, pz) ==
    \/ buf[3] # Ord("NL")
    \/ \E i \in 0..2 : buf[i] \notin Ord("0")..Ord("9")
    \/ \E i \in 0..2 : buf[i] - Ord("0") \notin Sudoku
    \/ pz[buf[0] - Ord("0")][buf[1] - Ord("0")] # 0
    \/ Conflicts(pz, buf[0] - Ord("0"), buf[1] - Ord("0"), buf[2] - Ord("0"))

\* C16: a configuration line that is malformed, out of range, on an occupied
\* cell or in conflict with its row, column or region ends the session in
\* the seeding phase; once ended the session stays ended, and once the
\* command loop has started the session never returns to seeding.
C16_SeedingFailureFatal ==
    [][/\ (pc = "seeding" /\ nseeds' = nseeds + 1 /\ BadSeedLine(line_in', puzzle))
            => pc' = "exited"
       /\ pc = "exited" => (pc' = "exited" /\ ncmds' = ncmds /\ puzzle' = puzzle)
       /\ pc \in {"interactive", "done"} => pc' \in {"interactive", "done"}]_vars

\* C17: after init_puzzle every cell (r, c) with r, c in 1..9 holds digit 0
\* and has its fixed flag FALSE, and nothing outside those cells was written.
C17_InitClearsBoard ==
    pc = "seeding" =>
        /\ \A r \in Sudoku, c \in Sudoku : puzzle[r][c] = 0 /\ fixed[r][c] = FALSE
        /\ stray = {}

\* A step in which print_puzzle is called: the 'p' command, and main's call
\* after configure has returned.
PrintStep ==
    \/ pc = "seeding" /\ pc' = "interactive"
    \/ /\ pc = "interactive" /\ pc' = "interactive" /\ ncmds' = ncmds + 1
       /\ cmd_line'[CMD_INDEX] = Ord("p")

\* The line of the output that shows row r, and the position in it of the
\* cell of column c.
RowLine(r) == r + 1 + ((r - 1) \div 3)
CellPos(c) == 1 + 2 * c + 2 * ((c - 1) \div 3)

\* The output is 13 lines: separators as lines 1, 5, 9 and 13, and for each
\* row a line with exactly four bars and nine cell positions, each showing
\* a blank for an empty cell and the digit of a non-empty one.
Rendered(out, pz) ==
    /\ Len(out) = 13
    /\ \A k \in {1, 5, 9, 13} :
          Len(out[k]) > 0 /\ \A i \in 1..Len(out[k]) : out[k][i] = Ord("-")
    /\ \A r \in Sudoku :
          LET ln == out[RowLine(r)]
          IN  /\ Cardinality({i \in 1..Len(ln) : ln[i] = Ord("|")}) = 4
              /\ Len(ln) = CellPos(9) + 2
              /\ \A c \in Sudoku :
                    ln[CellPos(c)] = IF pz[r][c] = 0 THEN Ord(" ")
                                     ELSE Ord("0") + pz[r][c]
              /\ \A i \in 1..Len(ln) :
                    i \notin {CellPos(c) : c \in Sudoku} => ln[i] \in {Ord(" "), Ord("|")}

\* C18: print_puzzle writes 13 lines, 4 separators and 9 content lines of
\* the shape above, and changes no cell and no fixed flag.
C18_RenderLayout ==
    [][PrintStep =>
          /\ Rendered(print_puzzle, puzzle)
          /\ puzzle' = puzzle /\ fixed' = fixed]_vars

\* Reached: the board was printed by a 'p' command while it held a seeded
\* digit and a placed digit.
C18_Witness ==
    /\ pc = "interactive" /\ ncmds > 0 /\ cmd_line[CMD_INDEX] = Ord("p")
    /\ \E r \in Sudoku, c \in Sudoku : fixed[r][c] = TRUE /\ puzzle[r][c] # 0
    /\ \E r \in Sudoku, c \in Sudoku :
          /\ fixed[r][c] = FALSE /\ puzzle[r][c] # 0
          /\ print_puzzle[RowLine(r)][CellPos(c)] = Ord("0") + puzzle[r][c]

\* The length of the command line read_line stored: the index of its NUL.
LineLen(buf) == CHOOSE n \in DOMAIN buf : buf[n] = Ord("NUL") /\ \A i \in 0..(n - 1) : buf[i] # Ord("NUL")

\* A loop iteration that dispatched an 'a' line too short to hold a digit
\* operand, or an 'e' line too short to hold a column operand.
ShortCommandStep ==
    /\ pc = "interactive"
    /\ \/ AddStep /\ LineLen(cmd_line') <= DIGIT_INDEX
       \/ EraseStep /\ LineLen(cmd_line') <= COL_INDEX

\* C19: an 'a' or 'e' command line with missing operands is answered with
\* an error status, changes no cell and no fixed flag, and the command loop
\* goes on, whatever lines were read before it.
C19_ShortCommandHarmless ==
    [][ShortCommandStep =>
          /\ status' # "OP_OK"
          /\ puzzle' = puzzle /\ fixed' = fixed
          /\ pc' = "interactive"]_vars

\* C20: in every state of a run every cell whose fixed flag is TRUE holds a
\* digit 1..9, and an erase_digit call on a fixed cell has returned
\* OP_FIXED (never OP_EMPTY).
C20_FixedCellsHoldDigits ==
    /\ \A r \in Idx, c \in Idx : fixed[r][c] = TRUE => puzzle[r][c] \in Sudoku
    /\ (op.name = "erase_digit" /\ op.row \in Sudoku /\ op.col \in Sudoku
          /\ fixed[op.row][op.col] = TRUE) => status = "OP_FIXED"

\* Reached: after two seeds, erase_digit on a fixed cell returned OP_FIXED
\* right after a placed digit had been erased with OP_OK.
C20_Witness ==
    /\ nseeds = 2
    /\ op.name = "erase_digit" /\ op.row \in Sudoku /\ op.col \in Sudoku
    /\ fixed[op.row][op.col] = TRUE
    /\ status = "OP_FIXED"
    /\ before.op.name = "erase_digit" /\ before.status = "OP_OK"

====
